---- MODULE Spec2Model ----
(***************************************************************************)
(* CAPRI / CPCON scoring engine (src/cisa_cpcon/mapper.py) and the         *)
(* dashboard's alert log (src/app.py).                                     *)
(*                                                                         *)
(* Numbers.  Every score is an integer count of 1e-4 units, so 0.5 is 5000 *)
(* and 0.1999 is 1999.  The weights are integer hundredths, so a weighted  *)
(* sum is a count of 1e-6 units.  round(x, 3) maps such a sum back to a    *)
(* multiple of 10 of the 1e-4 unit.                                        *)
(*                                                                         *)
(* Optional values.  Python's None is the empty sequence and a present     *)
(* value v is <<v>>.                                                       *)
(*                                                                         *)
(* Arguments.  process_alert reads each of its three arguments at exactly  *)
(* one statement (scores at line 89, cvss_context at lines 90-92,          *)
(* alert_meta at line 96), and the arguments are never written.  The model *)
(* draws each argument at the statement that first reads it.               *)
(***************************************************************************)
EXTENDS Integers, Sequences, FiniteSets, TLC

VARIABLES pc, scores, CSS, I, b, Ehat, provided, ORI_prime, base_input, base_level,
          alert_meta, final_level, floor_level, overrides, rationale,
          file_exists, file, alert_log, spc, arrivals

engineVars == <<pc, scores, CSS, I, b, Ehat, provided, ORI_prime, base_input,
                base_level, alert_meta, final_level, floor_level, overrides,
                rationale>>
logVars == <<file_exists, file, alert_log, spc, arrivals>>
vars == <<pc, scores, CSS, I, b, Ehat, provided, ORI_prime, base_input, base_level,
          alert_meta, final_level, floor_level, overrides, rationale,
          file_exists, file, alert_log, spc, arrivals>>

(***************************************************************************)
(* Bounds of the model.                                                    *)
(***************************************************************************)
\* uniform score vectors take the values 0, 0.5, ..., 0.5 * MaxScoreK
MaxScoreK == 2
\* map_cpcon is probed on every 1e-4 step from -BasisSlack to 1.0 + BasisSlack
BasisSlack == 500
\* number of dashboard sessions and of alerts they submit in total
NumSessions == 2
MaxAlerts == 3

None == << >>
Some(v) == <<v>>

ScoreVals == {k * 5000 : k \in 0..MaxScoreK}
ContextVals == {0, 9000}
BasisRange == (0 - BasisSlack)..(10000 + BasisSlack)
Sessions == 1..NumSessions

ParamNames == {"P", "X", "S", "U", "K", "C", "A"}
AllScores(v) == [k \in ParamNames |-> v]
\* complete score mappings: every 0/1 vector and the uniform vectors
ScoreVectors == [ParamNames -> {0, 10000}] \cup {AllScores(v) : v \in ScoreVals}
\* score mappings a caller can pass: the complete ones, a uniform vector
\* restricted to any subset of the seven names, and a complete one with
\* the extra entry "CSS" that pre-scored submissions carry
ScoreDicts ==
  ScoreVectors
  \cup UNION {[ks -> {v}] : ks \in SUBSET ParamNames, v \in ScoreVals}
  \cup {s @@ ("CSS" :> 3) : s \in ScoreVectors}

\* dict.get(key, default)
Get(d, k, default) == IF k \in DOMAIN d THEN d[k] ELSE default

\* dict.get(key), whose default is None
GetOpt(d, k) == IF k \in DOMAIN d THEN Some(d[k]) ELSE None

Field(k, o) == IF o = None THEN << >> ELSE (k :> o[1])
Opt(S) == {None} \cup {Some(v) : v \in S}
AlertMetas ==
  {Field("posture", p) @@ Field("sector_match", s) @@ Field("urgency", u)
     @@ Field("critical_functions", c) @@ Field("observed_exploitation", x) :
     p \in Opt({"Shields Up", "Unknown"}),
     s \in Opt(BOOLEAN),
     u \in Opt({"bod_or_emergency"}),
     c \in Opt(BOOLEAN),
     x \in Opt({"confirmed", "likely"})}

\* a context argument: None (no object) or a mapping of a subset of I, b, Ehat
Contexts ==
  {None} \cup {Some(Field("I", i) @@ Field("b", bb) @@ Field("Ehat", e)) :
                 i \in Opt(ContextVals), bb \in Opt(ContextVals),
                 e \in Opt(ContextVals)}

(***************************************************************************)
(* round(x, 3) of a weighted sum given in 1e-6 units.  The sum is a binary *)
(* float carrying an error far below 0.0005, so away from a tie the result *)
(* is the nearest thousandth.  On an exact decimal tie the float lies a    *)
(* hair above or below it, and either neighbour can come out.              *)
(***************************************************************************)
Round3(raw) ==
  LET q == raw \div 1000
      r == raw % 1000
  IN  IF r < 500 THEN {10 * q}
      ELSE IF r > 500 THEN {10 * (q + 1)}
      ELSE {10 * q, 10 * (q + 1)}

compute_css(P, X, S, U, K, C, A) ==
  Round3(20 * P + 15 * X + 15 * S + 15 * U + 10 * K + 15 * C + 10 * A)

\* compute_css(**scores): a TypeError (None here) unless the mapping's keys
\* are exactly the seven parameter names
css_call_default(sc) ==
  LET d == [k \in ParamNames |-> Get(sc, k, 0)]
  IN  {Some(c) : c \in compute_css(d.P, d.X, d.S, d.U, d.K, d.C, d.A)}

css_call(sc) ==
  IF DOMAIN sc = ParamNames
  THEN {Some(c) : c \in compute_css(sc.P, sc.X, sc.S, sc.U, sc.K, sc.C, sc.A)}
  ELSE {None}

compute_ori_prime_zero(pI, pb, pEhat, pCSS) ==
  IF pI = None THEN {None}
  ELSE {Some(o) : o \in Round3(40 * pI[1]
                               + 20 * (IF pb = None THEN 0 ELSE pb[1])
                               + 15 * (IF pEhat = None THEN 0 ELSE pEhat[1])
                               + 25 * pCSS)}

compute_ori_prime(pI, pb, pEhat, pCSS) ==
  IF None \in {pI, pb, pEhat} THEN {None}
  ELSE {Some(o) : o \in Round3(40 * pI[1] + 20 * pb[1] + 15 * pEhat[1]
                               + 25 * pCSS)}

map_cpcon_inclusive(ori_or_css) ==
  IF ori_or_css <= 2000 THEN 5
  ELSE IF ori_or_css <= 4000 THEN 4
  ELSE IF ori_or_css <= 6000 THEN 3
  ELSE IF ori_or_css <= 8000 THEN 2
  ELSE 1

map_cpcon(ori_or_css) ==
  IF ori_or_css < 2000 THEN 5
  ELSE IF ori_or_css < 4000 THEN 4
  ELSE IF ori_or_css < 6000 THEN 3
  ELSE IF ori_or_css < 8000 THEN 2
  ELSE 1

MaxOf(x, y) == IF x < y THEN y ELSE x

\* Python's builtin min of two numbers
Min(x, y) == IF y < x THEN y ELSE x

ShieldsUpFires(meta) ==
  LET posture == Get(meta, "posture", "None/Other")
      sm == IF Get(meta, "sector_match", FALSE) THEN 10000 ELSE 0
  IN  posture = "Shields Up" /\ sm >= 7000

BodUrgencyFiresLow(meta, pCSS) ==
  Get(meta, "urgency", "unspecified") = "bod_or_emergency" /\ pCSS >= 6000

BodUrgencyFires(meta, pCSS) ==
  Get(meta, "urgency", "unspecified") = "bod_or_emergency" /\ pCSS >= 8000

CriticalExploitationConfirmedOnly(meta) ==
  Get(meta, "critical_functions", FALSE)
  /\ Get(meta, "observed_exploitation", "unspecified") = "confirmed"

CriticalExploitationFires(meta) ==
  Get(meta, "critical_functions", FALSE)
  /\ Get(meta, "observed_exploitation", "unspecified") \in {"confirmed", "likely"}

OverrideRecord(name, pre, post, reason) ==
  [name |-> name, pre_level |-> pre, post_level |-> post, reason |-> reason]

\* the three rules of apply_overrides in order: <<floor, overrides>>
RunRules(meta, pCSS, pbase) ==
  LET f1 == IF ShieldsUpFires(meta) THEN Min(5, 3) ELSE 5
      o1 == IF ShieldsUpFires(meta)
            THEN <<OverrideRecord("shields_up_sector_match", pbase, 3,
                                  "Shields Up posture targeting this sector")>>
            ELSE << >>
      f2 == IF BodUrgencyFires(meta, pCSS) THEN Min(f1, 2) ELSE f1
      o2 == IF BodUrgencyFires(meta, pCSS)
            THEN Append(o1, OverrideRecord("bod_urgency_css", pbase, 2,
                                           "BOD urgency and high CSS"))
            ELSE o1
      f3 == IF CriticalExploitationFires(meta) THEN Min(f2, 2) ELSE f2
      o3 == IF CriticalExploitationFires(meta)
            THEN Append(o2, OverrideRecord("critical_exploitation", pbase, 2,
                              "Critical functions with exploitation evidence"))
            ELSE o2
  IN  <<f3, o3>>

apply_overrides_floor(meta, pCSS, pbase) ==
  LET r == RunRules(meta, pCSS, pbase)
  IN  <<r[1], r[1], r[2]>>

\* apply_overrides returns <<final_level, floor, overrides>>
apply_overrides(meta, pCSS, pbase) ==
  LET r == RunRules(meta, pCSS, pbase)
  IN  <<Min(pbase, r[1]), r[1], r[2]>>

Fallback == "Base CPCON derived from ORI' or CSS"

RationaleLast(ovs) ==
  IF ovs # << >> THEN ovs[Len(ovs)].reason ELSE Fallback

Rationale(ovs) ==
  IF ovs # << >> THEN ovs[1].reason ELSE Fallback

(***************************************************************************)
(* process_alert, statement by statement.                                  *)
(***************************************************************************)
EngineIdle ==
  /\ scores = << >> /\ CSS = 0 /\ I = None /\ b = None /\ Ehat = None /\ provided = FALSE
  /\ ORI_prime = None /\ base_input = 0 /\ base_level = 0
  /\ alert_meta = << >> /\ final_level = 0 /\ floor_level = 0
  /\ overrides = << >> /\ rationale = ""

LogIdle ==
  /\ file_exists = FALSE /\ file = << >>
  /\ alert_log = [s \in Sessions |-> << >>]
  /\ spc = [s \in Sessions |-> "idle"]
  /\ arrivals = << >>

Init == pc = "call" /\ EngineIdle /\ LogIdle

\* line 89: CSS = compute_css(**scores)
ComputeCss ==
  /\ pc = "call"
  /\ \E sc \in ScoreDicts : \E r \in css_call(sc) :
       /\ scores' = sc
       /\ IF r = None
          THEN pc' = "raised" /\ CSS' = CSS
          ELSE pc' = "ctx" /\ CSS' = r[1]
  /\ UNCHANGED <<I, b, Ehat, provided, ORI_prime, base_input, base_level,
                 alert_meta, final_level, floor_level, overrides, rationale>>
  /\ UNCHANGED logVars

\* lines 90-92 (and the provided flag of line 106): an absent or empty
\* context object reads as None for all three fields
ReadContext ==
  /\ pc = "ctx"
  /\ \E cvss_context \in Contexts :
       LET truthy == cvss_context # None /\ DOMAIN cvss_context[1] # {}
       IN  /\ I' = IF truthy THEN GetOpt(cvss_context[1], "I") ELSE None
           /\ b' = IF truthy THEN GetOpt(cvss_context[1], "b") ELSE None
           /\ Ehat' = IF truthy THEN GetOpt(cvss_context[1], "Ehat") ELSE None
           /\ provided' = (cvss_context # None)
  /\ pc' = "ori"
  /\ UNCHANGED <<scores, CSS, ORI_prime, base_input, base_level, alert_meta,
                 final_level, floor_level, overrides, rationale>>
  /\ UNCHANGED logVars

\* line 93
ComputeOri ==
  /\ pc = "ori"
  /\ \E o \in (IF I # None THEN compute_ori_prime(I, b, Ehat, CSS) ELSE {None}) :
       ORI_prime' = o
  /\ pc' = "map"
  /\ UNCHANGED <<scores, CSS, I, b, Ehat, provided, base_input, base_level, alert_meta,
                 final_level, floor_level, overrides, rationale>>
  /\ UNCHANGED logVars

\* lines 94-95
MapBase ==
  /\ pc = "map"
  /\ base_input' = IF ORI_prime # None THEN ORI_prime[1] ELSE CSS
  /\ base_level' = map_cpcon(base_input')
  /\ pc' = "ovr"
  /\ UNCHANGED <<scores, CSS, I, b, Ehat, provided, ORI_prime, alert_meta,
                 final_level, floor_level, overrides, rationale>>
  /\ UNCHANGED logVars

\* lines 96-120: apply_overrides and the assembly of the returned mapping
Resolve ==
  /\ pc = "ovr"
  /\ \E meta \in AlertMetas :
       LET r == apply_overrides(meta, CSS, base_level)
       IN  /\ alert_meta' = meta
           /\ final_level' = r[1]
           /\ floor_level' = r[2]
           /\ overrides' = r[3]
           /\ rationale' = Rationale(r[3])
  /\ pc' = "done"
  /\ UNCHANGED <<scores, CSS, I, b, Ehat, provided, ORI_prime, base_input, base_level>>
  /\ UNCHANGED logVars

Next == ComputeCss \/ ReadContext \/ ComputeOri \/ MapBase \/ Resolve

Spec == Init /\ [][Next]_vars

(***************************************************************************)
(* map_cpcon on its own: lines 94-95 applied to any CSS and any optional   *)
(* blended score of the probed range, not only to those the weighted sums  *)
(* of the drawn scores produce.                                            *)
(***************************************************************************)
InitMap ==
  /\ pc = "map"
  /\ scores = << >> /\ I = None /\ b = None /\ Ehat = None /\ provided = FALSE
  /\ \E x \in BasisRange : \E other \in {0, 10000} : \E blended \in BOOLEAN :
       /\ ORI_prime = IF blended THEN Some(x) ELSE None
       /\ CSS = IF blended THEN other ELSE x
  /\ base_input = 0 /\ base_level = 0
  /\ alert_meta = << >> /\ final_level = 0 /\ floor_level = 0
  /\ overrides = << >> /\ rationale = ""
  /\ LogIdle

NextMap == MapBase

SpecMap == InitMap /\ [][NextMap]_vars

(***************************************************************************)
(* The dashboard (src/app.py).  Every interaction of a session reruns the  *)
(* script from the top: it loads the log file into the run's own alert_log *)
(* and then runs the handler of the button that was pressed.  Runs of      *)
(* different sessions interleave; between the load and the handler the     *)
(* script renders widgets and fetches feeds over the network.  arrivals    *)
(* records, in order, the entries the handlers appended.                   *)
(***************************************************************************)
\* score mappings of pre-scored submissions
PreScored == {("CSS" :> 3), ("P" :> 5000)}

\* lines 27-33
Load(s) ==
  /\ spc[s] = "idle"
  /\ alert_log' = [alert_log EXCEPT ![s] = IF file_exists THEN file ELSE << >>]
  /\ spc' = [spc EXCEPT ![s] = "loaded"]
  /\ UNCHANGED <<file_exists, file, arrivals>>
  /\ UNCHANGED engineVars

\* lines 122-142: the "Ingest Alert" button.  A submission without scores
\* goes to process_alert with an empty score mapping, whose TypeError the
\* handler catches; a submission with scores is logged as pre-scored.
Ingest(s) ==
  /\ spc[s] = "loaded"
  /\ \E sc \in PreScored \cup {<< >>} :
       IF sc = << >>
       THEN /\ css_call(sc) = {None}
            /\ UNCHANGED <<file_exists, file, alert_log, arrivals>>
       ELSE /\ Len(arrivals) < MaxAlerts
            /\ LET result == [alert |-> Len(arrivals) + 1,
                              final_level |-> Get(sc, "CSS", 1),
                              rationale |-> "Pre-scored input"]
               IN  /\ alert_log' = [alert_log EXCEPT ![s] = Append(@, result)]
                   /\ file' = Append(alert_log[s], result)
                   /\ arrivals' = Append(arrivals, result)
            /\ file_exists' = TRUE
  /\ spc' = [spc EXCEPT ![s] = "idle"]
  /\ UNCHANGED engineVars

\* lines 83-101 and 144-146: the "Fetch & Process CISA Alerts" button.  The
\* first feed item goes to process_alert with an empty score mapping and
\* raises; a failed request raises too.  A feed without items reaches the
\* write of line 98.
FetchRss(s) ==
  /\ spc[s] = "loaded"
  /\ \E items \in 0..1 : \E fetched \in BOOLEAN :
       IF fetched /\ items = 0
       THEN file' = alert_log[s] /\ file_exists' = TRUE
       ELSE (~fetched \/ css_call(<< >>) = {None})
            /\ UNCHANGED <<file_exists, file>>
  /\ spc' = [spc EXCEPT ![s] = "idle"]
  /\ UNCHANGED <<alert_log, arrivals>>
  /\ UNCHANGED engineVars

\* lines 160-172: a run in which no button was pressed only renders
Render(s) ==
  /\ spc[s] = "loaded"
  /\ spc' = [spc EXCEPT ![s] = "idle"]
  /\ UNCHANGED <<file_exists, file, alert_log, arrivals>>
  /\ UNCHANGED engineVars

NextLog == \E s \in Sessions : Load(s) \/ Ingest(s) \/ FetchRss(s) \/ Render(s)

SpecLog == Init /\ [][NextLog]_vars

(***************************************************************************)
(* Properties.                                                             *)
(***************************************************************************)
Has(meta, k, v) == k \in DOMAIN meta /\ meta[k] = v
Fired(name) == \E n \in 1..Len(overrides) : overrides[n].name = name
Names(ovs) == [n \in 1..Len(ovs) |-> ovs[n].name]
ShieldsCond == Has(alert_meta, "posture", "Shields Up")
               /\ Has(alert_meta, "sector_match", TRUE)
BodCond == Has(alert_meta, "urgency", "bod_or_emergency") /\ CSS >= 8000
CritCond == Has(alert_meta, "critical_functions", TRUE)
            /\ (Has(alert_meta, "observed_exploitation", "confirmed")
                \/ Has(alert_meta, "observed_exploitation", "likely"))
ContextComplete == I # None /\ b # None /\ Ehat # None

MetaA == [posture |-> "Shields Up", sector_match |-> TRUE,
          urgency |-> "bod_or_emergency", critical_functions |-> TRUE,
          observed_exploitation |-> "confirmed"]
ScenarioA == /\ pc = "done" /\ scores = AllScores(10000)
             /\ alert_meta = MetaA /\ ~provided
ScenarioAOutcome(final) ==
  /\ CSS = 10000 /\ base_level = 1
  /\ Names(overrides) = <<"shields_up_sector_match", "bod_urgency_css",
                          "critical_exploitation">>
  /\ floor_level = 2 /\ final_level = final

\* C1 as stated: Scenario A returns CSS = 1.000, base_level = 1, all three
\* overrides, floor_level = 2 and final_level = 2.
C1_ScenarioA_Stated == ScenarioA => ScenarioAOutcome(2)

\* C1 amended: Scenario A returns CSS = 1.000, base_level = 1, all three
\* overrides, floor_level = 2 and final_level = 1, the base level, which the
\* floor of 2 does not raise.
C1_ScenarioA == ScenarioA => ScenarioAOutcome(1)

C1_Witness == ScenarioA /\ Len(overrides) = 3

ScenarioC == /\ pc = "done" /\ scores = AllScores(5000)
             /\ I = Some(9000) /\ b = Some(9000) /\ Ehat = Some(9000)

\* C2 as stated: Scenario C returns CSS = 0.500, ORI_prime = 0.725 and
\* base_level = 2.
C2_ScenarioC_Stated ==
  ScenarioC => CSS = 5000 /\ ORI_prime = Some(7250) /\ base_level = 2

\* C2 amended: Scenario C returns CSS = 0.500, ORI_prime = 0.800 (the sum
\* 0.36 + 0.18 + 0.135 + 0.125) and base_level = 1.
C2_ScenarioC ==
  ScenarioC => CSS = 5000 /\ ORI_prime = Some(8000) /\ base_level = 1

C2_Witness == ScenarioC /\ provided /\ base_input = 8000

\* C3: every returned result has final_level = min(base_level, floor_level),
\* floor_level <= 5 and final_level in 1..5, hence final_level <= base_level
\* and final_level <= floor_level.
C3_FinalIsMin ==
  pc = "done" =>
    /\ final_level = (IF base_level <= floor_level THEN base_level
                      ELSE floor_level)
    /\ floor_level <= 5
    /\ final_level \in 1..5
    /\ final_level <= base_level
    /\ final_level <= floor_level

C3_Witness == pc = "done" /\ floor_level < base_level /\ final_level = floor_level

\* C4: ORI_prime is non-null exactly when I, b and Ehat are all non-null; in
\* every other case it is null and base_level is map_cpcon(CSS).
C4_BlendNeedsAllThree ==
  /\ pc \in {"map", "ovr", "done"} => ((ORI_prime # None) <=> ContextComplete)
  /\ pc \in {"ovr", "done"} /\ ~ContextComplete =>
       ORI_prime = None /\ base_input = CSS /\ base_level = map_cpcon(CSS)

C4_Witness ==
  /\ pc = "done" /\ provided /\ I # None /\ b = None /\ Ehat # None
  /\ ORI_prime = None /\ base_input = CSS

\* C5: a score mapping that lacks any of P, X, S, U, K, C, A makes the
\* evaluation fail: no CSS, no level and no override record is produced.
C5_MissingScoreFails ==
  pc # "call" /\ ~(ParamNames \subseteq DOMAIN scores) =>
    /\ pc = "raised"
    /\ CSS = 0 /\ ORI_prime = None /\ base_level = 0 /\ final_level = 0
    /\ floor_level = 0 /\ overrides = << >> /\ rationale = ""

C5_Witness ==
  pc = "raised" /\ DOMAIN scores = ParamNames \ {"K"} /\ scores["P"] = 10000

\* C6: map_cpcon is the left-inclusive step function of the basis score
\* (ORI_prime if present, else CSS) with steps at 0.20, 0.40, 0.60 and 0.80;
\* 0.20 maps to 4, 0.1999 to 5, 0.7999 to 2, 0.8 to 1, and values below 0 or
\* above 1 map to 5 and 1.
C6_StepFunction ==
  pc = "ovr" =>
    /\ base_input = (IF ORI_prime # None THEN ORI_prime[1] ELSE CSS)
    /\ (base_level = 5) <=> (base_input < 2000)
    /\ (base_level = 4) <=> (2000 <= base_input /\ base_input < 4000)
    /\ (base_level = 3) <=> (4000 <= base_input /\ base_input < 6000)
    /\ (base_level = 2) <=> (6000 <= base_input /\ base_input < 8000)
    /\ (base_level = 1) <=> (8000 <= base_input)
    /\ base_input = 2000 => base_level = 4
    /\ base_input = 1999 => base_level = 5
    /\ base_input = 7999 => base_level = 2
    /\ base_input = 8000 => base_level = 1
    /\ base_input < 0 => base_level = 5
    /\ base_input > 10000 => base_level = 1

C6_Witness ==
  pc = "ovr" /\ ORI_prime = Some(2000) /\ base_input = 2000 /\ base_level = 4

\* C7: each rule fires exactly under its condition on the alert metadata and
\* on CSS (not the blended score), and floor_level is the minimum of the caps
\* of the rules that fired, or 5 when none fired.
C7_RulesFireExactly ==
  pc = "done" =>
    /\ Fired("shields_up_sector_match") <=> ShieldsCond
    /\ Fired("bod_urgency_css") <=> BodCond
    /\ Fired("critical_exploitation") <=> CritCond
    /\ floor_level = (IF BodCond \/ CritCond THEN 2
                      ELSE IF ShieldsCond THEN 3 ELSE 5)

C7_Witness ==
  /\ pc = "done" /\ Fired("critical_exploitation")
  /\ Has(alert_meta, "observed_exploitation", "likely")
  /\ ORI_prime # None /\ base_input < 8000 /\ Fired("bod_urgency_css")

RuleOrder == <<"shields_up_sector_match", "bod_urgency_css",
               "critical_exploitation">>
RuleHolds(name) ==
  IF name = "shields_up_sector_match" THEN ShieldsCond
  ELSE IF name = "bod_urgency_css" THEN BodCond ELSE CritCond
RuleCap(name) == IF name = "shields_up_sector_match" THEN 3 ELSE 2

\* C8: the overrides list holds one record per rule that fired, in the fixed
\* order, each with pre_level = base_level and post_level = its cap; the
\* rationale is the first record's reason, and the fallback string exactly
\* when the list is empty.
C8_OverrideRecords ==
  pc = "done" =>
    /\ Names(overrides) = SelectSeq(RuleOrder, RuleHolds)
    /\ \A n \in 1..Len(overrides) :
         /\ overrides[n].pre_level = base_level
         /\ overrides[n].post_level = RuleCap(overrides[n].name)
    /\ overrides # << >> => rationale = overrides[1].reason
    /\ (rationale = Fallback) <=> (overrides = << >>)

C8_Witness ==
  /\ pc = "done" /\ Len(overrides) >= 2
  /\ overrides[1].name = "shields_up_sector_match" /\ floor_level = 2
  /\ rationale = "Shields Up posture targeting this sector"

\* C9: with two dashboard sessions loading, appending and writing the log
\* file in any interleaving, every appended entry is in the final file in
\* arrival order and no stored entry is lost.
C9_NoLostUpdate ==
  (\A s \in Sessions : spc[s] = "idle") => file = arrivals

\* C10: when no blended score is computed and bod_urgency_css fires, the
\* base level is already 1 and final_level = base_level = 1.
C10_BodNeverChangesLevel ==
  pc = "done" /\ ORI_prime = None /\ Fired("bod_urgency_css") =>
    base_level = 1 /\ final_level = 1

C10_Witness ==
  /\ pc = "done" /\ ORI_prime = None /\ provided /\ Fired("bod_urgency_css")
  /\ floor_level = 2 /\ final_level = 1

====
